---- MODULE Spec2Model ----
(***************************************************************************)
(* Model of src/vector/defn.rs: the layer definition (Defn), its name      *)
(* lookups, the field and geometry-field iterators and the accessors of    *)
(* Field and GeomField.  The native schema (the object behind              *)
(* OGRFeatureDefnH) is the state the wrappers read.                        *)
(***************************************************************************)
EXTENDS Integers, Sequences, FiniteSets, TLC

VARIABLES fields, geoms, last, iters

vars == <<fields, geoms, last, iters>>

(* ------------------------------ bounds --------------------------------- *)
MaxFields == 2
MaxGeomFields == 2
MaxExtraCalls == 2

\* Two iterators can be alive over the same Defn.
IterIds == {"it1", "it2"}

(* ------------------------- strings and pointers ------------------------ *)
\* A text is a sequence of characters.  NUL is the zero byte, BAD a byte
\* that is not valid UTF-8 (it occurs in native strings only).
NUL == "NUL"
BAD == "xFF"

ToLowerAscii(c) ==
    CASE c = "I" -> "i"
      [] c = "D" -> "d"
      [] c = "G" -> "g"
      [] c = "X" -> "x"
      [] OTHER -> c

\* A native `const char *`: a null pointer, or the bytes before the
\* terminating zero.
NullStr == [null |-> TRUE, bytes |-> <<>>]
CStr(b) == [null |-> FALSE, bytes |-> b]

\* Option<T> and Result<T>.
None == [some |-> FALSE]
Some(v) == [some |-> TRUE, val |-> v]

Ok(v) == [ok |-> TRUE, val |-> v]
InvalidFieldName(field_name, method_name) ==
    [ok |-> FALSE, kind |-> "InvalidFieldName",
     field_name |-> field_name, method_name |-> method_name]
NulError(field_name) ==
    [ok |-> FALSE, kind |-> "NulError", field_name |-> field_name,
     method_name |-> "CString::new"]
TryFromIntError(n) ==
    [ok |-> FALSE, kind |-> "TryFromIntError", field_name |-> <<>>,
     method_name |-> "try_into"]
_last_null_pointer_err(method_name) ==
    [ok |-> FALSE, kind |-> "NullPointer", field_name |-> <<>>,
     method_name |-> method_name]

HasNul(s) == \E i \in 1..Len(s) : s[i] = NUL
IsUtf8(b) == \A i \in 1..Len(b) : b[i] # BAD

\* CString::new: fails on any zero byte in the text.
CString_new(s) == IF HasNul(s) THEN NulError(s) ELSE Ok(s)

\* utils::_string: None for a null pointer or a string that is not valid
\* text, the text otherwise.
_string(p) ==
    IF p.null THEN None
    ELSE IF ~IsUtf8(p.bytes) THEN None
    ELSE Some(p.bytes)

unwrap_or_default(o) == IF o.some THEN o.val ELSE <<>>

(* --------------------------- the native schema ------------------------- *)
id == <<"i", "d">>
ID == <<"I", "D">>
Id == <<"I", "d">>
gg == <<"g">>
GG == <<"G">>

FieldDefs ==
    { [name |-> CStr(id),        alt |-> NullStr,        dflt |-> NullStr],
      [name |-> CStr(ID),        alt |-> CStr(<<"x">>),  dflt |-> CStr(<<"x">>)],
      [name |-> CStr(<<BAD>>),   alt |-> CStr(<<BAD>>),  dflt |-> CStr(<<BAD>>)],
      [name |-> NullStr,         alt |-> CStr(<<>>),     dflt |-> CStr(<<>>)] }

wkbUnknown == "wkbUnknown"
wkbPoint == "wkbPoint"
wkbPolygon == "wkbPolygon"
wkbNone == "wkbNone"

NullSrs == [null |-> TRUE, srs |-> 0]
Srs(n) == [null |-> FALSE, srs |-> n]

GeomDefs ==
    { [name |-> CStr(gg),      type |-> wkbPoint,   srs |-> NullSrs],
      [name |-> CStr(GG),      type |-> wkbPolygon, srs |-> Srs(4326)],
      [name |-> CStr(<<BAD>>), type |-> wkbUnknown, srs |-> Srs(3857)] }

\* The definitions of a plain schema: every attribute field alike, every
\* geometry field alike.
NewFieldDefs == { [name |-> CStr(id), alt |-> NullStr, dflt |-> NullStr] }
NewGeomDefs == { [name |-> CStr(gg), type |-> wkbPoint, srs |-> NullSrs] }

SeqsUpTo(S, n) == UNION { [1..k -> S] : k \in 0..n }

\* The names a caller passes to the lookups (Rust &str: valid text, which
\* may hold zero bytes).
RequestedNames ==
    { id, ID, Id, gg, GG, <<"x">>, <<>>, <<"i", NUL, "d">> }

(* ------------------------- native library calls ------------------------ *)
\* Case-insensitive comparison of two byte strings.
EQUAL(a, b) ==
    /\ Len(a) = Len(b)
    /\ \A i \in 1..Len(a) : ToLowerAscii(a[i]) = ToLowerAscii(b[i])

Matches(defs, name) ==
    { i \in 1..Len(defs) : ~defs[i].name.null /\ EQUAL(defs[i].name.bytes, name) }

SetMin(S) == CHOOSE m \in S : \A x \in S : m <= x

\* First case-insensitive match, 0-based, -1 when there is none.
NameIndex(defs, name) ==
    IF Matches(defs, name) = {} THEN -1 ELSE SetMin(Matches(defs, name)) - 1

OGR_FD_GetFieldIndex(name) == NameIndex(fields, name)
OGR_FD_GetGeomFieldIndex(name) == NameIndex(geoms, name)

OGR_FD_GetFieldCount == Len(fields)
OGR_FD_GetGeomFieldCount == Len(geoms)

OGR_FD_GetGeomType == IF Len(geoms) = 0 THEN wkbNone ELSE geoms[1].type

(* ------------------------------- Defn ---------------------------------- *)
Lowered(s) == [i \in 1..Len(s) |-> ToLowerAscii(s[i])]

\* _field_index reporting a 1-based position.
_field_index_one_based(field_name, native_idx) ==
    IF ~CString_new(field_name).ok THEN CString_new(field_name)
    ELSE IF native_idx = -1
         THEN InvalidFieldName(field_name, "OGR_FD_GetFieldIndex")
    ELSE IF native_idx < 0 THEN TryFromIntError(native_idx)
    ELSE Ok(native_idx + 1)

\* _field_index reporting the normalised name in its error.
_field_index_lowered(field_name, native_idx) ==
    IF ~CString_new(field_name).ok THEN CString_new(field_name)
    ELSE IF native_idx = -1
         THEN InvalidFieldName(Lowered(field_name), "OGR_FD_GetFieldIndex")
    ELSE IF native_idx < 0 THEN TryFromIntError(native_idx)
    ELSE Ok(native_idx)

\* native_idx is what the native lookup returns for the C string.
_field_index(field_name, native_idx) ==
    IF ~CString_new(field_name).ok THEN CString_new(field_name)
    ELSE IF native_idx = -1
         THEN InvalidFieldName(field_name, "OGR_FD_GetFieldIndex")
    ELSE IF native_idx < 0 THEN TryFromIntError(native_idx)
    ELSE Ok(native_idx)

\* _geometry_field_index passing the text on without the CString check.
_geometry_field_index_unchecked(field_name, native_idx) ==
    IF native_idx = -1
    THEN InvalidFieldName(field_name, "OGR_FD_GetGeomFieldIndex")
    ELSE IF native_idx < 0 THEN TryFromIntError(native_idx)
    ELSE Ok(native_idx)

_geometry_field_index(field_name, native_idx) ==
    IF ~CString_new(field_name).ok THEN CString_new(field_name)
    ELSE IF native_idx = -1
         THEN InvalidFieldName(field_name, "OGR_FD_GetGeomFieldIndex")
    ELSE IF native_idx < 0 THEN TryFromIntError(native_idx)
    ELSE Ok(native_idx)

field_index(field_name) ==
    _field_index(field_name, OGR_FD_GetFieldIndex(field_name))

\* geometry_field_index consulting the attribute fields.
geometry_field_index_attr(field_name) ==
    _geometry_field_index(field_name, OGR_FD_GetFieldIndex(field_name))

geometry_field_index(field_name) ==
    _geometry_field_index(field_name, OGR_FD_GetGeomFieldIndex(field_name))

geometry_type == OGR_FD_GetGeomType

\* A native definition handle (OGRFieldDefnH, OGRGeomFieldDefnH): null, or
\* the definition at a 0-based position of the schema.
NullHandle == [null |-> TRUE, idx |-> 0]
Handle(i) == [null |-> FALSE, idx |-> i]

GetDefn(defs, i) ==
    IF 0 <= i /\ i < Len(defs) THEN Handle(i) ELSE NullHandle

OGR_FD_GetFieldDefn(i) == GetDefn(fields, i)
OGR_FD_GetGeomFieldDefn(i) == GetDefn(geoms, i)

OGR_Fld_GetNameRef(h) == fields[h.idx + 1].name
OGR_Fld_GetAlternativeNameRef(h) == fields[h.idx + 1].alt
OGR_Fld_GetDefault(h) == fields[h.idx + 1].dflt
OGR_GFld_GetNameRef(h) == geoms[h.idx + 1].name
OGR_GFld_GetType(h) == geoms[h.idx + 1].type
OGR_GFld_GetSpatialRef(h) == geoms[h.idx + 1].srs

(* --------------------------- Field, GeomField -------------------------- *)
\* Field::name keeping the bytes of a string that is not valid text.
Field_name_lossy(c_field_defn) ==
    IF OGR_Fld_GetNameRef(c_field_defn).null THEN <<>>
    ELSE OGR_Fld_GetNameRef(c_field_defn).bytes

Field_name(c_field_defn) ==
    unwrap_or_default(_string(OGR_Fld_GetNameRef(c_field_defn)))

Field_alternative_name(c_field_defn) ==
    unwrap_or_default(_string(OGR_Fld_GetAlternativeNameRef(c_field_defn)))

Field_default_value(c_field_defn) ==
    _string(OGR_Fld_GetDefault(c_field_defn))

GeomField_name(c_field_defn) ==
    unwrap_or_default(_string(OGR_GFld_GetNameRef(c_field_defn)))

GeomField_field_type(c_field_defn) == OGR_GFld_GetType(c_field_defn)

\* SpatialRef::from_c_obj: wraps the native spatial reference.
SpatialRef_from_c_obj(c_obj) == Ok([srs |-> c_obj.srs])

\* spatial_ref without the null check.
spatial_ref_of_unchecked(c_obj) == SpatialRef_from_c_obj(c_obj)

\* c_obj is what OGR_GFld_GetSpatialRef returned.
spatial_ref_of(c_obj) ==
    IF c_obj.null THEN _last_null_pointer_err("OGR_GFld_GetSpatialRef")
    ELSE SpatialRef_from_c_obj(c_obj)

GeomField_spatial_ref(c_field_defn) ==
    spatial_ref_of(OGR_GFld_GetSpatialRef(c_field_defn))

(* ------------------------------ iterators ------------------------------ *)
\* FieldIterator / GeomFieldIterator: next_id and total are the fields of
\* the struct.  calls, native, yielded and ret record the history of
\* next(): the number of calls, the (index, count at the time of the call)
\* pairs passed to the native get-by-index function, the items returned and
\* the last return value.
NoIter == [live |-> FALSE]

Defn_fields ==
    [live |-> TRUE, kind |-> "field", next_id |-> 0,
     total |-> OGR_FD_GetFieldCount,
     calls |-> 0, native |-> <<>>, yielded |-> <<>>, ret |-> None]

\* geom_fields starting its cursor at 1.
Defn_geom_fields_from_one ==
    [live |-> TRUE, kind |-> "geom", next_id |-> 1,
     total |-> OGR_FD_GetGeomFieldCount,
     calls |-> 0, native |-> <<>>, yielded |-> <<>>, ret |-> None]

Defn_geom_fields ==
    [live |-> TRUE, kind |-> "geom", next_id |-> 0,
     total |-> OGR_FD_GetGeomFieldCount,
     calls |-> 0, native |-> <<>>, yielded |-> <<>>, ret |-> None]

\* next() testing for the end with > instead of ==.
FieldIterator_next_gt(it) ==
    IF it.next_id > it.total
    THEN [it EXCEPT !.calls = @ + 1, !.ret = None]
    ELSE [it EXCEPT !.calls = @ + 1,
                    !.native = Append(@, [idx |-> it.next_id,
                                          count |-> OGR_FD_GetFieldCount]),
                    !.yielded = Append(@, OGR_FD_GetFieldDefn(it.next_id)),
                    !.ret = Some(OGR_FD_GetFieldDefn(it.next_id)),
                    !.next_id = @ + 1]

FieldIterator_next(it) ==
    IF it.next_id = it.total
    THEN [it EXCEPT !.calls = @ + 1, !.ret = None]
    ELSE [it EXCEPT !.calls = @ + 1,
                    !.native = Append(@, [idx |-> it.next_id,
                                          count |-> OGR_FD_GetFieldCount]),
                    !.yielded = Append(@, OGR_FD_GetFieldDefn(it.next_id)),
                    !.ret = Some(OGR_FD_GetFieldDefn(it.next_id)),
                    !.next_id = @ + 1]

\* next() consulting the native library again once exhausted.
GeomFieldIterator_next_refetch(it) ==
    IF it.next_id = it.total
    THEN [it EXCEPT !.calls = @ + 1,
                    !.native = Append(@, [idx |-> it.next_id,
                                          count |-> OGR_FD_GetGeomFieldCount]),
                    !.ret = None]
    ELSE [it EXCEPT !.calls = @ + 1,
                    !.native = Append(@, [idx |-> it.next_id,
                                          count |-> OGR_FD_GetGeomFieldCount]),
                    !.yielded = Append(@, OGR_FD_GetGeomFieldDefn(it.next_id)),
                    !.ret = Some(OGR_FD_GetGeomFieldDefn(it.next_id)),
                    !.next_id = @ + 1]

GeomFieldIterator_next(it) ==
    IF it.next_id = it.total
    THEN [it EXCEPT !.calls = @ + 1, !.ret = None]
    ELSE [it EXCEPT !.calls = @ + 1,
                    !.native = Append(@, [idx |-> it.next_id,
                                          count |-> OGR_FD_GetGeomFieldCount]),
                    !.yielded = Append(@, OGR_FD_GetGeomFieldDefn(it.next_id)),
                    !.ret = Some(OGR_FD_GetGeomFieldDefn(it.next_id)),
                    !.next_id = @ + 1]

(* ------------------------------ actions -------------------------------- *)
Init ==
    /\ fields \in SeqsUpTo(FieldDefs, MaxFields)
    /\ geoms \in SeqsUpTo(GeomDefs, MaxGeomFields)
    /\ last = [op |-> "none"]
    /\ iters = [i \in IterIds |-> NoIter]

FieldIndex ==
    \E n \in RequestedNames :
        /\ last' = [op |-> "field_index", field_name |-> n,
                    res |-> field_index(n)]
        /\ UNCHANGED <<fields, geoms, iters>>

GeometryFieldIndex ==
    \E n \in RequestedNames :
        /\ last' = [op |-> "geometry_field_index", field_name |-> n,
                    res |-> geometry_field_index(n)]
        /\ UNCHANGED <<fields, geoms, iters>>

GeometryType ==
    /\ last' = [op |-> "geometry_type", res |-> geometry_type]
    /\ UNCHANGED <<fields, geoms, iters>>

\* The accessors are called on a Field (GeomField) an iterator yields: a
\* handle of one of the definitions of the schema.
FieldName ==
    \E i \in 0..(Len(fields) - 1) :
        /\ last' = [op |-> "Field::name", idx |-> i,
                    res |-> Field_name(OGR_FD_GetFieldDefn(i))]
        /\ UNCHANGED <<fields, geoms, iters>>

FieldAlternativeName ==
    \E i \in 0..(Len(fields) - 1) :
        /\ last' = [op |-> "Field::alternative_name", idx |-> i,
                    res |-> Field_alternative_name(OGR_FD_GetFieldDefn(i))]
        /\ UNCHANGED <<fields, geoms, iters>>

FieldDefaultValue ==
    \E i \in 0..(Len(fields) - 1) :
        /\ last' = [op |-> "Field::default_value", idx |-> i,
                    res |-> Field_default_value(OGR_FD_GetFieldDefn(i))]
        /\ UNCHANGED <<fields, geoms, iters>>

GeomFieldName ==
    \E i \in 0..(Len(geoms) - 1) :
        /\ last' = [op |-> "GeomField::name", idx |-> i,
                    res |-> GeomField_name(OGR_FD_GetGeomFieldDefn(i))]
        /\ UNCHANGED <<fields, geoms, iters>>

GeomFieldType ==
    \E i \in 0..(Len(geoms) - 1) :
        /\ last' = [op |-> "GeomField::field_type", idx |-> i,
                    res |-> GeomField_field_type(OGR_FD_GetGeomFieldDefn(i))]
        /\ UNCHANGED <<fields, geoms, iters>>

GeomFieldSpatialRef ==
    \E i \in 0..(Len(geoms) - 1) :
        /\ last' = [op |-> "GeomField::spatial_ref", idx |-> i,
                    res |-> GeomField_spatial_ref(OGR_FD_GetGeomFieldDefn(i))]
        /\ UNCHANGED <<fields, geoms, iters>>

Next ==
    \/ FieldIndex
    \/ GeometryFieldIndex
    \/ GeometryType
    \/ FieldName
    \/ FieldAlternativeName
    \/ FieldDefaultValue
    \/ GeomFieldName
    \/ GeomFieldType
    \/ GeomFieldSpatialRef

Spec == Init /\ [][Next]_vars

(* Lookups and spatial_ref against a native library that may return any   *)
(* value: any index for a lookup (not found, the first and the last        *)
(* position, a negative value other than -1), any pointer for the spatial  *)
(* reference.                                                              *)
NativeIdxs == << -1, 0, MaxFields, -2 >>
NativeSrs == {NullSrs, Srs(4326)}

FieldIndexAny ==
    \E n \in RequestedNames, k \in 1..Len(NativeIdxs) :
        /\ last' = [op |-> "field_index", field_name |-> n,
                    native |-> NativeIdxs[k],
                    res |-> _field_index(n, NativeIdxs[k])]
        /\ UNCHANGED <<fields, geoms, iters>>

GeometryFieldIndexAny ==
    \E n \in RequestedNames, k \in 1..Len(NativeIdxs) :
        /\ last' = [op |-> "geometry_field_index", field_name |-> n,
                    native |-> NativeIdxs[k],
                    res |-> _geometry_field_index(n, NativeIdxs[k])]
        /\ UNCHANGED <<fields, geoms, iters>>

SpatialRefAny ==
    \E c_obj \in NativeSrs :
        /\ last' = [op |-> "GeomField::spatial_ref", native |-> c_obj,
                    res |-> spatial_ref_of(c_obj)]
        /\ UNCHANGED <<fields, geoms, iters>>

NextAny ==
    \/ FieldIndexAny
    \/ GeometryFieldIndexAny
    \/ SpatialRefAny

\* What the native library returns is an input here, so the schemas are the
\* plain ones.
InitAny ==
    /\ fields \in SeqsUpTo(NewFieldDefs, MaxFields)
    /\ geoms \in SeqsUpTo(NewGeomDefs, MaxGeomFields)
    /\ last = [op |-> "none"]
    /\ iters = [i \in IterIds |-> NoIter]

SpecAny == InitAny /\ [][NextAny]_vars

(* Iteration over an unchanging schema.                                    *)
Fields(i) ==
    /\ iters' = [iters EXCEPT ![i] = Defn_fields]
    /\ UNCHANGED <<fields, geoms, last>>

GeomFields(i) ==
    /\ iters' = [iters EXCEPT ![i] = Defn_geom_fields]
    /\ UNCHANGED <<fields, geoms, last>>

CanCall(it) == it.live /\ it.calls < it.total + MaxExtraCalls

FieldNext(i) ==
    /\ CanCall(iters[i])
    /\ iters[i].kind = "field"
    /\ iters' = [iters EXCEPT ![i] = FieldIterator_next(iters[i])]
    /\ UNCHANGED <<fields, geoms, last>>

GeomFieldNext(i) ==
    /\ CanCall(iters[i])
    /\ iters[i].kind = "geom"
    /\ iters' = [iters EXCEPT ![i] = GeomFieldIterator_next(iters[i])]
    /\ UNCHANGED <<fields, geoms, last>>

NextIter ==
    \/ \E i \in IterIds : Fields(i)
    \/ \E i \in IterIds : GeomFields(i)
    \/ \E i \in IterIds : FieldNext(i)
    \/ \E i \in IterIds : GeomFieldNext(i)

\* The iterators read the number of attribute fields only, and the
\* geometry fields through GeomField.
InitIter ==
    /\ fields \in SeqsUpTo(NewFieldDefs, MaxFields)
    /\ geoms \in SeqsUpTo(GeomDefs, MaxGeomFields)
    /\ last = [op |-> "none"]
    /\ iters = [i \in IterIds |-> NoIter]

SpecIter == InitIter /\ [][NextIter]_vars

(* Iteration while the native schema gains and loses fields: a layer whose *)
(* definition starts empty and is edited through the native library.       *)
InitMut ==
    /\ fields = <<>>
    /\ geoms = <<>>
    /\ last = [op |-> "none"]
    /\ iters = [i \in IterIds |-> NoIter]

NativeAddField ==
    /\ Len(fields) < MaxFields
    /\ \E d \in NewFieldDefs : fields' = Append(fields, d)
    /\ UNCHANGED <<geoms, last, iters>>

NativeDeleteField ==
    /\ Len(fields) > 0
    /\ \E k \in 1..Len(fields) :
           fields' = [j \in 1..(Len(fields) - 1) |->
                          IF j < k THEN fields[j] ELSE fields[j + 1]]
    /\ UNCHANGED <<geoms, last, iters>>

NativeAddGeomField ==
    /\ Len(geoms) < MaxGeomFields
    /\ \E d \in NewGeomDefs : geoms' = Append(geoms, d)
    /\ UNCHANGED <<fields, last, iters>>

NativeDeleteGeomField ==
    /\ Len(geoms) > 0
    /\ \E k \in 1..Len(geoms) :
           geoms' = [j \in 1..(Len(geoms) - 1) |->
                         IF j < k THEN geoms[j] ELSE geoms[j + 1]]
    /\ UNCHANGED <<fields, last, iters>>

NextMut ==
    \/ NextIter
    \/ NativeAddField
    \/ NativeDeleteField
    \/ NativeAddGeomField
    \/ NativeDeleteGeomField

SpecMut == InitMut /\ [][NextMut]_vars

(* ------------------------------ properties ----------------------------- *)
\* 0-based positions of the definitions whose name equals n
\* case-insensitively.
Found(defs, n) ==
    { k \in 0..(Len(defs) - 1) :
        /\ ~defs[k + 1].name.null
        /\ Len(defs[k + 1].name.bytes) = Len(n)
        /\ \A c \in 1..Len(n) :
               ToLowerAscii(defs[k + 1].name.bytes[c]) = ToLowerAscii(n[c]) }

IsInvalidFieldName(r) == ~r.ok /\ r.kind = "InvalidFieldName"

\* The result a lookup over defs owes a name without a zero byte.
LookupOk(r, defs, n) ==
    IF Found(defs, n) = {} THEN IsInvalidFieldName(r)
    ELSE /\ r.ok
         /\ r.val \in Found(defs, n)
         /\ \A k \in Found(defs, n) : r.val <= k

\* C1: field_index of a name without a zero byte returns the smallest
\* position whose field name equals it case-insensitively, and
\* InvalidFieldName when there is none; looking up the name of the field
\* at position k succeeds with some j <= k.
C1_FieldIndexFirstMatch ==
    /\ (last.op = "field_index" /\ ~HasNul(last.field_name))
           => LookupOk(last.res, fields, last.field_name)
    /\ \A k \in 0..(Len(fields) - 1) :
           (~fields[k + 1].name.null /\ IsUtf8(fields[k + 1].name.bytes))
               => /\ field_index(fields[k + 1].name.bytes).ok
                  /\ field_index(fields[k + 1].name.bytes).val <= k

C1_Witness ==
    /\ last.op = "field_index"
    /\ last.field_name = Id
    /\ Len(fields) = 2
    /\ Found(fields, Id) = {0, 1}
    /\ fields[1] # fields[2]
    /\ last.res = Ok(0)

\* C2: geometry_field_index of a name without a zero byte returns the
\* smallest position among the geometry fields whose name equals it
\* case-insensitively, InvalidFieldName when there is none; a name only an
\* attribute field has is missing for geometry_field_index and a name only
\* a geometry field has is missing for field_index.
C2_GeometryFieldIndexFirstMatch ==
    /\ (last.op = "geometry_field_index" /\ ~HasNul(last.field_name))
           => LookupOk(last.res, geoms, last.field_name)
    /\ \A n \in RequestedNames :
           (~HasNul(n) /\ Found(fields, n) # {} /\ Found(geoms, n) = {})
               => IsInvalidFieldName(geometry_field_index(n))
    /\ \A n \in RequestedNames :
           (~HasNul(n) /\ Found(geoms, n) # {} /\ Found(fields, n) = {})
               => IsInvalidFieldName(field_index(n))

C2_Witness ==
    /\ last.op = "geometry_field_index"
    /\ last.field_name = ID
    /\ Found(fields, ID) # {}
    /\ Found(geoms, ID) = {}
    /\ Found(geoms, gg) = {0, 1}
    /\ IsInvalidFieldName(last.res)

\* C3: a lookup that fails because the name is not found reports the name
\* exactly as the caller passed it and the native function consulted, and
\* a lookup leaves the schema unchanged.
LookupMethod(op) ==
    IF op = "field_index" THEN "OGR_FD_GetFieldIndex"
    ELSE "OGR_FD_GetGeomFieldIndex"

C3_NotFoundCarriesName ==
    /\ [](last.op \in {"field_index", "geometry_field_index"}
            => /\ IsInvalidFieldName(last.res)
                   => /\ last.res.field_name = last.field_name
                      /\ last.res.method_name = LookupMethod(last.op)
               /\ (~HasNul(last.field_name)
                     /\ Found(IF last.op = "field_index" THEN fields
                              ELSE geoms, last.field_name) = {})
                   => IsInvalidFieldName(last.res))
    /\ [][last'.op \in {"field_index", "geometry_field_index"}
            => (fields' = fields /\ geoms' = geoms)]_vars

C3_Witness ==
    /\ last.op = "field_index"
    /\ last.field_name = Id
    /\ last.res = InvalidFieldName(Id, "OGR_FD_GetFieldIndex")
    /\ Len(fields) = 2

ErrOps == {"field_index", "geometry_field_index", "GeomField::spatial_ref"}

\* C4 as stated: every Err of field_index, geometry_field_index and
\* spatial_ref is InvalidFieldName or the null-pointer error.
C4_TwoErrorKindsOnly ==
    (last.op \in ErrOps /\ ~last.res.ok)
        => last.res.kind \in {"InvalidFieldName", "NullPointer"}

\* C4 amended: every Err is one of four kinds.  A lookup returns the
\* conversion of NulError exactly when the name holds a zero byte,
\* InvalidFieldName exactly when it holds none and the native index is -1,
\* the conversion of TryFromIntError exactly when it holds none and the
\* native index is below -1; spatial_ref errs with the null-pointer error
\* only.
C4_FourErrorKinds ==
    /\ (last.op \in ErrOps /\ ~last.res.ok)
           => last.res.kind \in {"InvalidFieldName", "NullPointer",
                                 "NulError", "TryFromIntError"}
    /\ last.op \in {"field_index", "geometry_field_index"}
           => /\ (~last.res.ok /\ last.res.kind = "NulError")
                     <=> HasNul(last.field_name)
              /\ IsInvalidFieldName(last.res)
                     <=> (~HasNul(last.field_name) /\ last.native = -1)
              /\ (~last.res.ok /\ last.res.kind = "TryFromIntError")
                     <=> (~HasNul(last.field_name) /\ last.native < -1)
              /\ last.res.ok
                     <=> (~HasNul(last.field_name) /\ last.native >= 0)
    /\ (last.op = "GeomField::spatial_ref" /\ ~last.res.ok)
           => last.res.kind = "NullPointer"

C4_Witness ==
    /\ last.op = "geometry_field_index"
    /\ HasNul(last.field_name)
    /\ last.native = -1
    /\ ~last.res.ok
    /\ last.res.kind = "NulError"

TextOrEmpty(p) == IF ~p.null /\ IsUtf8(p.bytes) THEN p.bytes ELSE <<>>

C6_StringAccessorsDefault ==
    /\ last.op = "Field::name"
           => last.res = TextOrEmpty(fields[last.idx + 1].name)
    /\ last.op = "Field::alternative_name"
           => last.res = TextOrEmpty(fields[last.idx + 1].alt)
    /\ last.op = "GeomField::name"
           => last.res = TextOrEmpty(geoms[last.idx + 1].name)
    /\ last.op = "Field::default_value"
           => IF ~fields[last.idx + 1].dflt.null
                 /\ IsUtf8(fields[last.idx + 1].dflt.bytes)
              THEN last.res = Some(fields[last.idx + 1].dflt.bytes)
              ELSE last.res = None

C6_Witness ==
    /\ last.op = "Field::name"
    /\ ~fields[last.idx + 1].name.null
    /\ ~IsUtf8(fields[last.idx + 1].name.bytes)
    /\ last.res = <<>>

IsGeomIter(it) == it.live /\ it.kind = "geom"
IsFieldIter(it) == it.live /\ it.kind = "field"
SchemaOf(it) == IF it.kind = "field" THEN fields ELSE geoms

\* C7: with at least one geometry field, geometry_type is the field_type
\* of the first item geom_fields() yields.
C7_GeometryTypeIsFirstGeomField ==
    \A i \in IterIds :
        (IsGeomIter(iters[i]) /\ Len(iters[i].yielded) >= 1)
            => /\ ~iters[i].yielded[1].null
               /\ GeomField_field_type(iters[i].yielded[1]) = geometry_type

C7_Witness ==
    \E i \in IterIds :
        /\ IsGeomIter(iters[i])
        /\ Len(iters[i].yielded) >= 1
        /\ Len(geoms) = 2
        /\ geoms[1].type # geoms[2].type
        /\ geometry_type = wkbPolygon

\* C8: the cursor of an iterator stays within 0..total, total being the
\* count the native library reported at creation, and every index passed
\* to the native get-by-index call is within 0..total-1; also for count 0.
C8_CursorWithinTotal ==
    \A i \in IterIds :
        iters[i].live
            => /\ iters[i].total = Len(SchemaOf(iters[i]))
               /\ 0 <= iters[i].next_id
               /\ iters[i].next_id <= iters[i].total
               /\ \A k \in 1..Len(iters[i].native) :
                      /\ 0 <= iters[i].native[k].idx
                      /\ iters[i].native[k].idx <= iters[i].total - 1

C8_Witness ==
    /\ IsFieldIter(iters["it1"])
    /\ iters["it1"].total = 0
    /\ iters["it1"].calls = 2
    /\ IsGeomIter(iters["it2"])
    /\ iters["it2"].total = 2
    /\ iters["it2"].calls = 3
    /\ iters["it2"].next_id = iters["it2"].total

Min(a, b) == IF a <= b THEN a ELSE b

\* What n+x calls of next() on a schema of n definitions have done.
IterHistoryOk(it) ==
    /\ it.total = Len(SchemaOf(it))
    /\ it.next_id = Min(it.calls, it.total)
    /\ Len(it.yielded) = Min(it.calls, it.total)
    /\ Len(it.native) = Len(it.yielded)
    /\ \A k \in 1..Len(it.yielded) :
           /\ it.yielded[k] = Handle(k - 1)
           /\ it.native[k].idx = k - 1
    /\ (it.calls >= 1 /\ it.calls <= it.total)
           => it.ret = Some(Handle(it.calls - 1))
    /\ it.calls > it.total => it.ret = None

\* C9: an iterator over n definitions yields exactly the definitions at
\* native positions 0..n-1 in order, then None on call n+1 and on every
\* later call without a native call and without moving its cursor; each
\* fields()/geom_fields() starts at 0, and a step of one iterator leaves
\* the other iterator as it is.
C9_IterationYieldsEachOnce ==
    /\ [](\A i \in IterIds : iters[i].live => IterHistoryOk(iters[i]))
    /\ [][\A i \in IterIds :
            iters'[i] # iters[i]
                => /\ \A j \in IterIds \ {i} : iters'[j] = iters[j]
                   /\ iters'[i].calls = 0
                          => /\ iters'[i].next_id = 0
                             /\ iters'[i].yielded = <<>>
                   /\ (iters'[i].calls > 0
                         /\ iters[i].next_id = iters[i].total)
                          => /\ iters'[i].ret = None
                             /\ iters'[i].native = iters[i].native
                             /\ iters'[i].next_id = iters[i].next_id
                             /\ iters'[i].yielded = iters[i].yielded]_vars

C9_Witness ==
    /\ IsGeomIter(iters["it1"])
    /\ iters["it1"].total = 2
    /\ iters["it1"].calls = 4
    /\ iters["it1"].ret = None
    /\ IsFieldIter(iters["it2"])
    /\ iters["it2"].total = 2
    /\ iters["it2"].calls = 1

\* C10 as stated: every index passed to the native get-by-index call is
\* below the number of definitions the schema has at that call, so every
\* item yielded wraps a non-null definition.
C10_YieldedDefinitionsValid ==
    \A i \in IterIds :
        iters[i].live
            => /\ \A k \in 1..Len(iters[i].native) :
                      iters[i].native[k].idx < iters[i].native[k].count
               /\ \A k \in 1..Len(iters[i].yielded) :
                      ~iters[i].yielded[k].null
====
